---- MODULE Spec2Model ----
(***************************************************************************)
(* hf-lora-loader: ensure_hf_lora_file and its helpers                     *)
(* (src/src/hf_lora_loader/nodes.py), run against a POSIX file system and  *)
(* the downloader of the test-suite (src/tests/test_hf_lora_loader.py).    *)
(*                                                                         *)
(* A Python str is a sequence of one-character strings; a path is such a   *)
(* str and is interpreted by the file system component by component.       *)
(***************************************************************************)
EXTENDS Integers, Sequences, FiniteSets, TLC

\* ------------------------------------------------------------------ bounds
\* longest repo identifier given to the sanitizer
MaxLen == 3
\* number of calls of ensure_hf_lora_file in one behaviour
MaxCalls == 2

\* ----------------------------------------------------------------- strings
\* None
Null == <<"null">>

NoContent == "none"

\* the characters str.strip() removes, those str.isspace() holds of: space,
\* TAB, LF, CR, FF, VT, FS, GS, RS, US, NEL (U+0085) and NBSP (U+00A0). A
\* character is one of the first 256 code points, what a string here can hold.
Whitespace ==
    {" ", "\t", "\n", "\r", "\f",
     "", "", "", "", "", "", " "}

RECURSIVE LStrip(_)
LStrip(s) ==
    IF s # <<>> /\ Head(s) \in Whitespace THEN LStrip(Tail(s)) ELSE s

RECURSIVE RStrip(_)
RStrip(s) ==
    IF s # <<>> /\ s[Len(s)] \in Whitespace
    THEN RStrip(SubSeq(s, 1, Len(s) - 1))
    ELSE s

\* str.strip()
Strip(s) == RStrip(LStrip(s))

\* str.replace(old, new), old non-empty
RECURSIVE Replace(_, _, _)
Replace(s, old, new) ==
    IF Len(s) < Len(old) THEN s
    ELSE IF SubSeq(s, 1, Len(old)) = old
         THEN new \o Replace(SubSeq(s, Len(old) + 1, Len(s)), old, new)
         ELSE <<Head(s)>> \o Replace(Tail(s), old, new)

\* the cased characters: str.lower() takes UpperCase[i] to LowerCase[i] and
\* keeps every other character
UpperCase ==
    <<"A", "B", "C", "D", "E", "F", "G", "H", "I", "J", "K", "L", "M",
      "N", "O", "P", "Q", "R", "S", "T", "U", "V", "W", "X", "Y", "Z",
      "À", "Á", "Â", "Ã", "Ä", "Å", "Æ", "Ç", "È", "É", "Ê", "Ë", "Ì",
      "Í", "Î", "Ï", "Ð", "Ñ", "Ò", "Ó", "Ô", "Õ", "Ö", "Ø", "Ù", "Ú",
      "Û", "Ü", "Ý", "Þ">>

LowerCase ==
    <<"a", "b", "c", "d", "e", "f", "g", "h", "i", "j", "k", "l", "m",
      "n", "o", "p", "q", "r", "s", "t", "u", "v", "w", "x", "y", "z",
      "à", "á", "â", "ã", "ä", "å", "æ", "ç", "è", "é", "ê", "ë", "ì",
      "í", "î", "ï", "ð", "ñ", "ò", "ó", "ô", "õ", "ö", "ø", "ù", "ú",
      "û", "ü", "ý", "þ">>

LowerOf ==
    [c \in {UpperCase[i] : i \in DOMAIN UpperCase} |->
        LowerCase[CHOOSE i \in DOMAIN UpperCase : UpperCase[i] = c]]

LowerChar(c) == IF c \in DOMAIN LowerOf THEN LowerOf[c] ELSE c

\* str.lower()
Lower(s) == [i \in 1..Len(s) |-> LowerChar(s[i])]

\* str.split(sep) for a one-character sep: the sequence of the pieces
RECURSIVE SplitFrom(_, _, _)
SplitFrom(s, sep, cur) ==
    IF s = <<>> THEN <<cur>>
    ELSE IF Head(s) = sep
         THEN <<cur>> \o SplitFrom(Tail(s), sep, <<>>)
         ELSE SplitFrom(Tail(s), sep, Append(cur, Head(s)))

Split(s, sep) == SplitFrom(s, sep, <<>>)

\* sep.join(parts)
RECURSIVE JoinWith(_, _)
JoinWith(parts, sep) ==
    IF parts = <<>> THEN <<>>
    ELSE IF Len(parts) = 1 THEN parts[1]
         ELSE parts[1] \o <<sep>> \o JoinWith(Tail(parts), sep)

\* ------------------------------------------------------------------- paths
\* A path is kept as the pieces of its text between the "/", the value of
\* text.split("/"): "/r/x" is <<"", "r", "x">>, "" is <<"">>, "a/" is
\* <<"a", "">>. PathText gives the text back.
PathOf(text) == Split(text, "/")
PathText(path) == JoinWith(path, "/")

IsAbs(path) == Len(path) >= 2 /\ path[1] = <<>>
EndsWithSep(path) == Len(path) >= 2 /\ path[Len(path)] = <<>>

\* posixpath.join(a, b)
PathJoin(a, b) ==
    IF IsAbs(b) THEN b
    ELSE IF a = <<<<>>>> THEN b
    ELSE IF EndsWithSep(a) THEN SubSeq(a, 1, Len(a) - 1) \o b
    ELSE a \o b

\* the text begins with exactly two "/"
TwoSlashes(path) ==
    /\ Len(path) >= 3 /\ path[1] = <<>> /\ path[2] = <<>>
    /\ ~(Len(path) >= 4 /\ path[3] = <<>>)

\* the loop of posixpath.normpath over the components
RECURSIVE NormComps(_, _, _)
NormComps(comps, rooted, acc) ==
    IF comps = <<>> THEN acc
    ELSE LET comp == Head(comps)
             rest == Tail(comps)
         IN IF comp = <<>> \/ comp = <<".">> THEN NormComps(rest, rooted, acc)
            ELSE IF \/ comp # <<".", ".">>
                    \/ (~rooted /\ acc = <<>>)
                    \/ (acc # <<>> /\ acc[Len(acc)] = <<".", ".">>)
                 THEN NormComps(rest, rooted, Append(acc, comp))
                 ELSE IF acc # <<>>
                      THEN NormComps(rest, rooted, SubSeq(acc, 1, Len(acc) - 1))
                      ELSE NormComps(rest, rooted, acc)

\* posixpath.normpath
normpath(path) ==
    LET rooted == IsAbs(path)
        two    == TwoSlashes(path)
        comps  == NormComps(path, rooted, <<>>)
    IN IF ~rooted THEN (IF comps = <<>> THEN <<<<".">>>> ELSE comps)
       ELSE IF comps = <<>> THEN (IF two THEN <<<<>>, <<>>, <<>>>> ELSE <<<<>>, <<>>>>)
       ELSE IF two THEN <<<<>>, <<>>>> \o comps
       ELSE <<<<>>>> \o comps

NonEmptyComps(path) == SelectSeq(path, LAMBDA c : c # <<>>)

RECURSIVE CommonLen(_, _)
CommonLen(a, b) ==
    IF a = <<>> \/ b = <<>> \/ Head(a) # Head(b) THEN 0
    ELSE 1 + CommonLen(Tail(a), Tail(b))

\* os.getcwd(): the working directory of the process, "/"
getcwd == <<<<>>, <<>>>>

\* posixpath.abspath
abspath(path) == normpath(IF IsAbs(path) THEN path ELSE PathJoin(getcwd, path))

\* posixpath.relpath(path, start); ok = FALSE: ValueError, no path specified
relpath(path, start) ==
    LET start_list == NonEmptyComps(abspath(start))
        path_list  == NonEmptyComps(abspath(path))
        i          == CommonLen(start_list, path_list)
        rel_list   == [k \in 1..(Len(start_list) - i) |-> <<".", ".">>]
                      \o SubSeq(path_list, i + 1, Len(path_list))
    IN IF path = <<<<>>>> THEN [ok |-> FALSE, path |-> path]
       ELSE [ok |-> TRUE, path |-> IF rel_list = <<>> THEN <<<<".">>>> ELSE rel_list]

\* posixpath.basename
basename(path) == path[Len(path)]

\* str(pathlib.PurePosixPath(a) / b): empty and "." components are dropped,
\* a root of exactly two "/" is kept
PurePathStr(a, b) ==
    LET raw   == PathJoin(a, b)
        comps == SelectSeq(raw, LAMBDA c : c # <<>> /\ c # <<".">>)
        root  == IF TwoSlashes(raw) THEN <<<<>>, <<>>>> ELSE <<<<>>>>
    IN IF IsAbs(raw)
       THEN (IF comps = <<>> THEN Append(root, <<>>) ELSE root \o comps)
       ELSE IF comps = <<>> THEN <<<<".">>>> ELSE comps

\* ------------------------------------------------------------ the sanitizer
HF_SUBDIR == <<"h", "f", "_", "l", "o", "r", "a", "_", "l", "o", "a", "d", "e", "r">>

_sanitize_repo_id_oneunderscore(repo_id) ==
    Replace(Replace(repo_id, <<"/">>, <<"_">>), <<" ">>, <<"_">>)

_sanitize_repo_id(repo_id) ==
    Replace(Replace(repo_id, <<"/">>, <<"_", "_">>), <<" ">>, <<"_">>)

\* ------------------------------------------------------------- file system
\* A location is the sequence of the names from "/" down; dirs is the set of
\* the directories, files maps the regular files to their content.
Parent(loc) == IF loc = <<>> THEN loc ELSE SubSeq(loc, 1, Len(loc) - 1)

\* the kernel's walk along the components of a path: every component is
\* looked up in a directory
RECURSIVE Walk(_, _, _)
Walk(comps, cur, D) ==
    IF comps = <<>> THEN [ok |-> TRUE, loc |-> cur]
    ELSE IF cur \notin D THEN [ok |-> FALSE, loc |-> cur]
    ELSE LET c == Head(comps)
         IN IF c = <<>> \/ c = <<".">> THEN Walk(Tail(comps), cur, D)
            ELSE IF c = <<".", ".">> THEN Walk(Tail(comps), Parent(cur), D)
            ELSE Walk(Tail(comps), Append(cur, c), D)

\* where the walk along a path begins: "/" or the working directory
StartLoc(path) == IF IsAbs(path) THEN <<>> ELSE NonEmptyComps(getcwd)

\* the empty path names no file (ENOENT)
Resolve(path, D) ==
    IF path = <<<<>>>> THEN [ok |-> FALSE, loc |-> StartLoc(path)]
    ELSE Walk(path, StartLoc(path), D)

\* os.path.exists
exists(path, D, F) ==
    LET r == Resolve(path, D) IN r.ok /\ (r.loc \in D \/ r.loc \in DOMAIN F)

\* os.path.isdir
isdir(path, D) == LET r == Resolve(path, D) IN r.ok /\ r.loc \in D

RECURSIVE MkWalk(_, _, _, _)
MkWalk(comps, cur, D, F) ==
    IF comps = <<>> THEN [ok |-> TRUE, dirs |-> D]
    ELSE LET c == Head(comps)
         IN IF c = <<>> \/ c = <<".">> THEN MkWalk(Tail(comps), cur, D, F)
            ELSE IF c = <<".", ".">> THEN MkWalk(Tail(comps), Parent(cur), D, F)
            ELSE IF Append(cur, c) \in DOMAIN F THEN [ok |-> FALSE, dirs |-> D]
            ELSE MkWalk(Tail(comps), Append(cur, c), D \cup {Append(cur, c)}, F)

\* os.makedirs(path, exist_ok=True): every missing directory on the way is
\* created; a regular file on the way is an OSError
makedirs(path, D, F) ==
    IF path = <<<<>>>> THEN [ok |-> FALSE, dirs |-> D]
    ELSE MkWalk(path, StartLoc(path), D, F)

\* open(path, "wb").write(content)
WriteFile(path, content, D, F) ==
    LET r == Resolve(path, D)
    IN IF ~r.ok \/ r.loc \in D
       THEN [ok |-> FALSE, files |-> F, loc |-> r.loc]
       ELSE [ok    |-> TRUE,
             files |-> [l \in DOMAIN F \cup {r.loc} |->
                           IF l = r.loc THEN content ELSE F[l]],
             loc   |-> r.loc]

\* open(path, "rb").read()
ReadFile(path, D, F) ==
    LET r == Resolve(path, D)
    IN IF r.ok /\ r.loc \in DOMAIN F
       THEN [ok |-> TRUE, content |-> F[r.loc]]
       ELSE [ok |-> FALSE, content |-> NoContent]

\* ---------------------------------------------------------------- checksum
Contents == {"c1", "c2"}

\* hashlib.sha256(content).hexdigest(): one digest per content
Sha256Hex(content) ==
    CASE content = "c1" -> <<"a", "1">>
      [] content = "c2" -> <<"b", "2">>

\* ok = FALSE: the file cannot be read (OSError)
_checksum_matches(path, expected_sha256, D, F) ==
    LET rd == ReadFile(path, D, F)
    IN IF ~rd.ok THEN [ok |-> FALSE, match |-> FALSE]
       ELSE [ok    |-> TRUE,
             match |-> Lower(Sha256Hex(rd.content)) = Lower(expected_sha256)]

\* ---------------------------------------------------------------- copying
\* os.path.samefile, False when either path cannot be stat'ed
SameFile(src, dst, D, F) ==
    /\ exists(src, D, F) /\ exists(dst, D, F)
    /\ Resolve(src, D).loc = Resolve(dst, D).loc

copy2_move(src, dst, D, F) ==
    LET real == IF isdir(dst, D) THEN PathJoin(dst, <<basename(src)>>) ELSE dst
        rd   == ReadFile(src, D, F)
        wr   == WriteFile(real, rd.content, D, F)
        sloc == Resolve(src, D).loc
    IN IF SameFile(src, real, D, F) \/ ~rd.ok \/ ~wr.ok
       THEN [ok |-> FALSE, files |-> F, written |-> {}]
       ELSE [ok      |-> TRUE,
             files   |-> [l \in DOMAIN wr.files \ {sloc} |-> wr.files[l]],
             written |-> {wr.loc}]

\* shutil.copy2(src, dst): into the directory when dst is one; SameFileError
\* when source and destination are one file
copy2(src, dst, D, F) ==
    LET real == IF isdir(dst, D) THEN PathJoin(dst, <<basename(src)>>) ELSE dst
        rd   == ReadFile(src, D, F)
        wr   == WriteFile(real, rd.content, D, F)
    IN IF SameFile(src, real, D, F) \/ ~rd.ok \/ ~wr.ok
       THEN [ok |-> FALSE, files |-> F, written |-> {}]
       ELSE [ok |-> TRUE, files |-> wr.files, written |-> {wr.loc}]

\* -------------------------------------------------------------- downloader
HttpError == "HfHubHTTPError"

\* what the transport does in one invocation: fetch some content, or fail
DlOutcomes == Contents \cup {HttpError}

\* _mock_downloader(content)(local_dir=..., filename=...): the file is written
\* to local_dir/filename and its path returned; a transport that fails
\* raises HfHubHTTPError and writes nothing
downloader(dl, local_dir, filename, D, F) ==
    LET mk     == makedirs(PurePathStr(local_dir, <<<<>>>>), D, F)
        target == PurePathStr(local_dir, filename)
        wr     == WriteFile(target, dl, mk.dirs, F)
    IN IF dl = HttpError
       THEN [kind |-> HttpError, path |-> Null, dirs |-> D, files |-> F, written |-> {}]
       ELSE IF ~mk.ok \/ ~wr.ok
       THEN [kind |-> "OSError", path |-> Null, dirs |-> mk.dirs, files |-> F,
             written |-> {}]
       ELSE [kind |-> "ok", path |-> target, dirs |-> mk.dirs, files |-> wr.files,
             written |-> {wr.loc}]

\* ------------------------------------------------------ ensure_hf_lora_file
\* truth value of an Optional[str]
Truthy(x) == x # Null /\ x # <<>>

\* folder_paths is the module of the host, imported or not (line 14), and
\* what its get_folder_paths("loras") returns. ok = FALSE: RuntimeError
_default_lora_root(lora_root, folder_paths) ==
    IF Truthy(lora_root)
    THEN [ok |-> TRUE, root |-> lora_root, msg |-> <<>>]
    ELSE IF ~folder_paths.imported
    THEN [ok |-> FALSE, root |-> Null, msg |-> <<"folder_paths">>]
    ELSE IF folder_paths.loras = <<>>
    THEN [ok |-> FALSE, root |-> Null, msg |-> <<"loras">>]
    ELSE [ok |-> TRUE, root |-> folder_paths.loras[1], msg |-> <<>>]

InvalidArgument_repo_only(repo_id, filename) ==
    IF Strip(repo_id) = <<>> THEN <<"repo_id">> ELSE Null

\* the argument checks: which argument is blank, Null when none is
InvalidArgument(repo_id, filename) ==
    IF Strip(repo_id) = <<>> THEN <<"repo_id">>
    ELSE IF Strip(filename) = <<>> THEN <<"filename">>
    ELSE Null

final_name(save_as, filename) ==
    Strip(IF Truthy(save_as) THEN save_as ELSE filename)

NormalizeExpected(expected_sha256) ==
    IF Truthy(expected_sha256) THEN Strip(Lower(expected_sha256)) ELSE <<>>

needs_download_ignoring_stale(force_download, present, stale, expected) ==
    force_download \/ ~present

\* present: os.path.exists(target_path); stale: an expected checksum, a
\* present target and no match
needs_download(force_download, present, stale, expected) ==
    force_download \/ ~present \/ stale

verification_fails_never(expected, match) == FALSE

\* the check of the target after the download
verification_fails(expected, match) == expected # <<>> /\ ~match

Outcome(kind, msg, value, downloads, D, F, written, target_dir, target_path, dlpath) ==
    [kind |-> kind, msg |-> msg, value |-> value, downloads |-> downloads,
     dirs |-> D, files |-> F, written |-> written, target_dir |-> target_dir,
     target_path |-> target_path, downloaded_path |-> dlpath]

\* One call, in a process with the module folder_paths, on the file system
\* (D, F); dl is what the transport does if it is invoked. kind is "ok" with
\* the returned path in value, or the exception raised.
ensure_hf_lora_file(repo_id, filename, save_as, force_download, expected_sha256, lora_root, dl, folder_paths, D, F) ==
    LET bad         == InvalidArgument(repo_id, filename)
        dr          == _default_lora_root(lora_root, folder_paths)
        root        == PathOf(dr.root)
        repo_slug   == _sanitize_repo_id(Strip(repo_id))
        fname       == final_name(save_as, filename)
        target_dir  == PathJoin(PathJoin(root, PathOf(HF_SUBDIR)), PathOf(repo_slug))
        mk          == makedirs(target_dir, D, F)
        target_path == PathJoin(target_dir, PathOf(fname))
        expected    == NormalizeExpected(expected_sha256)
        present     == exists(target_path, mk.dirs, F)
        checked     == expected # <<>> /\ present
        chk         == _checksum_matches(target_path, expected, mk.dirs, F)
        stale       == checked /\ ~chk.match
        got         == downloader(dl, target_dir, PathOf(Strip(filename)), mk.dirs, F)
        cp          == IF normpath(got.path) # normpath(target_path)
                       THEN copy2(got.path, target_path, got.dirs, got.files)
                       ELSE [ok |-> TRUE, files |-> got.files, written |-> {}]
        chk2        == _checksum_matches(target_path, expected, got.dirs, cp.files)
        rel         == relpath(target_path, root)
        relative    == Replace(PathText(rel.path), <<"\\">>, <<"/">>)
    IN IF bad # Null
       THEN Outcome("ValueError", bad, Null, 0, D, F, {}, Null, Null, Null)
       ELSE IF ~dr.ok
       THEN Outcome("RuntimeError", dr.msg, Null, 0, D, F, {}, Null, Null, Null)
       ELSE IF ~mk.ok
       THEN Outcome("OSError", <<"makedirs">>, Null, 0, mk.dirs, F, {},
                    target_dir, target_path, Null)
       ELSE IF checked /\ ~chk.ok
       THEN Outcome("OSError", <<"read">>, Null, 0, mk.dirs, F, {},
                    target_dir, target_path, Null)
       ELSE IF ~needs_download(force_download, present, stale, expected)
       THEN (IF ~rel.ok
             THEN Outcome("ValueError", <<"relpath">>, Null, 0, mk.dirs, F, {},
                          target_dir, target_path, Null)
             ELSE Outcome("ok", <<>>, relative, 0, mk.dirs, F, {},
                          target_dir, target_path, Null))
       ELSE IF got.kind = HttpError
       THEN Outcome("HuggingFaceDownloadError", <<"download">>, Null, 1,
                    got.dirs, got.files, {}, target_dir, target_path, Null)
       ELSE IF got.kind = "OSError"
       THEN Outcome("OSError", <<"download">>, Null, 1, got.dirs, got.files,
                    got.written, target_dir, target_path, Null)
       ELSE IF ~cp.ok
       THEN Outcome("OSError", <<"copy">>, Null, 1, got.dirs, got.files,
                    got.written, target_dir, target_path, got.path)
       ELSE IF expected # <<>> /\ ~chk2.ok
       THEN Outcome("OSError", <<"read">>, Null, 1, got.dirs, cp.files,
                    got.written \cup cp.written, target_dir, target_path, got.path)
       ELSE IF verification_fails(expected, chk2.match)
       THEN Outcome("ValueError", <<"checksum">>, Null, 1, got.dirs, cp.files,
                    got.written \cup cp.written, target_dir, target_path, got.path)
       ELSE IF ~rel.ok
       THEN Outcome("ValueError", <<"relpath">>, Null, 1, got.dirs, cp.files,
                    got.written \cup cp.written, target_dir, target_path, got.path)
       ELSE Outcome("ok", <<>>, relative, 1, got.dirs, cp.files,
                    got.written \cup cp.written, target_dir, target_path, got.path)

\* ------------------------------------------------------------------- state
VARIABLES
    dirs,      \* the directories of the file system
    files,     \* the regular files and their content
    last,      \* the last call: arguments, outcome, file system before it
    first,     \* the outcome of the call before, when it had the same arguments
    rejected,  \* (target path, content) that failed the check after a download
    ncalls,    \* calls made
    folder_paths,  \* the module folder_paths of the process
    sanIn,     \* argument of _sanitize_repo_id
    sanOut     \* its result, Null before the call

vars == <<dirs, files, last, first, rejected, ncalls, folder_paths, sanIn, sanOut>>

\* lora_root as the tests pass it, a directory that exists
LoraRoot == <<"/", "r">>

\* outside the host: the import of line 12 has failed
NotImported == [imported |-> FALSE, loras |-> <<>>]

\* inside the host, with no directory configured for "loras", and with two
\* of them, the first one being the directory /r
FolderPaths ==
    {NotImported,
     [imported |-> TRUE, loras |-> <<>>],
     [imported |-> TRUE, loras |-> <<<<"/", "/", "r">>, <<"/", "q">>>>]}

\* the lora_root of a call: none, as the node of the host passes (lines
\* 170-179), or the directory, as the tests pass it
LoraRoots == {Null, LoraRoot}

RepoIds == {<<" ">>, <<"a", "/", "b">>, <<".", ".">>}
Filenames == {<<"\r">>, <<"m">>}
\* save_as: none, a plain name, a blank one, and names with a separator or
\* "..", joined as they are (lines 87-90)
SaveAsNames ==
    {Null, <<"n">>, <<" ">>, <<"m", "/">>, <<".", ".">>,
     <<"x", "/", ".", ".", "/", "m">>}
ExpectedSums == {Null, <<" ">>, <<"A", "1", " ">>}

EmptyFiles == [l \in {} |-> NoContent]

NoCall ==
    [repo_id |-> Null, filename |-> Null, save_as |-> Null, expected |-> Null,
     force |-> FALSE, lora_root |-> Null, dl |-> NoContent, kind |-> "none", msg |-> <<>>,
     value |-> Null, downloads |-> 0, written |-> {}, target_dir |-> Null,
     target_path |-> Null, downloaded_path |-> Null,
     pre_dirs |-> {}, pre_files |-> EmptyFiles]

NoFirst == [same |-> FALSE, kind |-> "none", value |-> Null]

Init ==
    /\ dirs = {<<>>, <<<<"r">>>>}
    /\ files = EmptyFiles
    /\ last = NoCall
    /\ first = NoFirst
    /\ rejected = {}
    /\ ncalls = 0
    /\ folder_paths \in FolderPaths
    /\ sanIn = <<>>
    /\ sanOut = Null

SameArgs(repo_id, filename, save_as, expected, force, lora_root) ==
    /\ last.kind # "none"
    /\ last.repo_id = repo_id /\ last.filename = filename
    /\ last.save_as = save_as /\ last.expected = expected /\ last.force = force
    /\ last.lora_root = lora_root

\* The outcomes of a call with these arguments, each with what the
\* transport does in it: nothing when the call does not invoke it.
Outcomes(repo_id, filename, save_as, force, expected, lora_root) ==
    UNION {IF failing.downloads = 0
           THEN {[dl |-> NoContent, r |-> failing]}
           ELSE {[dl |-> HttpError, r |-> failing]} \cup
                {[dl |-> dl,
                  r  |-> ensure_hf_lora_file(repo_id, filename, save_as, force,
                             expected, lora_root, dl, folder_paths, dirs, files)] :
                   dl \in Contents}
           : failing \in {ensure_hf_lora_file(repo_id, filename, save_as, force,
                              expected, lora_root, HttpError, folder_paths, dirs, files)}}

\* ensure_hf_lora_file(repo_id, filename, save_as=..., force_download=...,
\*                     expected_sha256=..., lora_root=..., downloader=...)
Call(repo_id, filename, save_as, force, expected, lora_root, dl, r) ==
       /\ dirs' = r.dirs
       /\ files' = r.files
       /\ last' = [repo_id |-> repo_id, filename |-> filename, save_as |-> save_as,
                   expected |-> expected, force |-> force,
                   lora_root |-> lora_root, dl |-> dl,
                   kind |-> r.kind, msg |-> r.msg, value |-> r.value,
                   downloads |-> r.downloads, written |-> r.written,
                   target_dir |-> r.target_dir, target_path |-> r.target_path,
                   downloaded_path |-> r.downloaded_path,
                   pre_dirs |-> dirs, pre_files |-> files]
       /\ first' = IF SameArgs(repo_id, filename, save_as, expected, force, lora_root)
                   THEN [same |-> TRUE, kind |-> last.kind, value |-> last.value]
                   ELSE NoFirst
       /\ rejected' = IF r.kind = "ValueError" /\ r.msg = <<"checksum">>
                      THEN rejected \cup {[target |-> r.target_path, content |-> dl]}
                      ELSE rejected
       /\ ncalls' = ncalls + 1
       /\ UNCHANGED <<folder_paths, sanIn, sanOut>>

Next ==
    /\ ncalls < MaxCalls
    /\ \E repo_id \in RepoIds, filename \in Filenames, save_as \in SaveAsNames,
          force \in BOOLEAN, expected \in ExpectedSums, lora_root \in LoraRoots :
           \E o \in Outcomes(repo_id, filename, save_as, force, expected, lora_root) :
               Call(repo_id, filename, save_as, force, expected, lora_root, o.dl, o.r)

Spec == Init /\ [][Next]_vars

\* ------------------------------------------- the sanitizer, on its own inputs
RepoChars == {"a", "/", " ", "_"}

RECURSIVE StringsUpTo(_)
StringsUpTo(n) ==
    IF n = 0 THEN {<<>>}
    ELSE LET shorter == StringsUpTo(n - 1)
         IN shorter \cup {Append(s, c) : s \in shorter, c \in RepoChars}

InitSanitize ==
    /\ dirs = {<<>>, <<<<"r">>>>}
    /\ files = EmptyFiles
    /\ last = NoCall
    /\ first = NoFirst
    /\ rejected = {}
    /\ ncalls = 0
    /\ folder_paths = NotImported
    /\ sanIn \in StringsUpTo(MaxLen)
    /\ sanOut = Null

Sanitize ==
    /\ sanOut = Null
    /\ sanOut' = _sanitize_repo_id(sanIn)
    /\ UNCHANGED <<dirs, files, last, first, rejected, ncalls, folder_paths, sanIn>>

NextSanitize == Sanitize

SpecSanitize == InitSanitize /\ [][NextSanitize]_vars

\* ============================================================== properties
\* Vocabulary of the properties, read off the recorded call.
Called == last.kind # "none"

Blank(s) == \A i \in 1..Len(s) : s[i] \in Whitespace

PassedValidation == Called /\ ~Blank(last.repo_id) /\ ~Blank(last.filename)

\* There is a cache root: the lora_root of the call, or else the first
\* directory the host has configured.
CacheRootKnown ==
    Truthy(last.lora_root) \/ (folder_paths.imported /\ folder_paths.loras # <<>>)

CacheRoot ==
    PathOf(IF Truthy(last.lora_root) THEN last.lora_root ELSE folder_paths.loras[1])

\* the call has valid arguments and a cache root, hence a target path
Admitted == PassedValidation /\ CacheRootKnown

\* An expected checksum was given: a value that is not blank. (None, "" and
\* a blank string all leave the checksum unspecified, line 92.)
ExpectedGiven == last.expected # Null /\ ~Blank(last.expected)

\* content hashes to the expected value, compared case-insensitively
HashesTo(content, expected) == Lower(Sha256Hex(content)) = Lower(Strip(expected))

\* what the target path of the call names
Target == Resolve(last.target_path, dirs)
TargetLoc == Target.loc

\* before the call: the target path exists / names a regular file / one
\* that hashes to the expected value
PreTargetExists == exists(last.target_path, dirs, last.pre_files)
PreTargetIsFile == Target.ok /\ TargetLoc \in DOMAIN last.pre_files
PreTargetHashes ==
    PreTargetIsFile /\ HashesTo(last.pre_files[TargetLoc], last.expected)

\* after the call
PostTargetIsFile == Target.ok /\ TargetLoc \in DOMAIN files
PostTargetHashes ==
    PostTargetIsFile /\ HashesTo(files[TargetLoc], last.expected)

Succeeded == last.kind = "ok"
ChecksumMismatch == last.kind = "ValueError" /\ last.msg = <<"checksum">>
InvalidArgumentError ==
    last.kind = "ValueError" /\ last.msg \in {<<"repo_id">>, <<"filename">>}
DownloadFailed == last.kind = "HuggingFaceDownloadError"

\* the transport was invoked and returned a file
DownloadPerformed == last.downloads = 1 /\ last.dl \in Contents

\* the files that differ from before the call, and those written in it
ChangedFiles ==
    {l \in DOMAIN files : l \notin DOMAIN last.pre_files \/ last.pre_files[l] # files[l]}
    \cup last.written

NoFileDeleted == DOMAIN last.pre_files \subseteq DOMAIN files

\* ---------------------------------------------------------------------- C1
\* C1: in a call that passes the argument checks (and has a cache root) the
\* downloader is invoked
\* exactly once if force_download is set, or the target does not exist, or a
\* checksum was given and the existing target does not hash to it; otherwise
\* it is invoked zero times and the files are left as they were.
C1_DownloadDecision ==
    Admitted =>
        IF last.force \/ ~PreTargetExists \/ (ExpectedGiven /\ ~PreTargetHashes)
        THEN last.downloads = 1
        ELSE last.downloads = 0 /\ files = last.pre_files

\* ---------------------------------------------------------------------- C2
\* C2: a valid reference (no save_as, a cache root) with no existing cache
\* entry downloads
\* exactly once, and a successful call returns the text
\* hf_lora_loader/<sanitized repo_id>/<filename> and leaves exactly the
\* downloaded content at cache_root joined with the returned path.
CanonicalRelative ==
    HF_SUBDIR \o <<"/">> \o _sanitize_repo_id(Strip(last.repo_id))
              \o <<"/">> \o Strip(last.filename)

C2_FreshDownload ==
    (Admitted /\ last.save_as = Null /\ ~PreTargetExists) =>
        /\ last.downloads = 1
        /\ Succeeded =>
             /\ last.value = CanonicalRelative
             /\ LET rd == ReadFile(PathJoin(CacheRoot, PathOf(last.value)), dirs, files)
                IN rd.ok /\ rd.content = last.dl


\* ---------------------------------------------------------------------- C4
\* C4: a call with the arguments of the call before it, force_download
\* False, the first one successful, returns the same value, invokes the
\* downloader zero times and leaves the files as the first call left them.
C4_Idempotent ==
    (first.same /\ first.kind = "ok" /\ ~last.force) =>
        /\ Succeeded
        /\ last.value = first.value
        /\ last.downloads = 0
        /\ files = last.pre_files

\* ---------------------------------------------------------------------- C5
\* C5: when the call returns successfully and a checksum was given, the
\* file at the target path hashes to it, cached or downloaded, forced or not.
C5_VerifiedOnReturn ==
    (Succeeded /\ ExpectedGiven) => PostTargetHashes

C5_Witness ==
    /\ Succeeded /\ ExpectedGiven /\ last.downloads = 1 /\ last.force
    /\ PreTargetIsFile /\ last.expected # Lower(Strip(last.expected))

\* ---------------------------------------------------------------------- C6
\* what the claim says of one character, and what holds of it
RECURSIVE Flatten(_)
Flatten(pieces) ==
    IF pieces = <<>> THEN <<>> ELSE Head(pieces) \o Flatten(Tail(pieces))

\* C6 as stated: every "/" and every space becomes one "_", every other
\* character is kept.
C6_OneUnderscore ==
    sanOut # Null =>
        sanOut = [i \in 1..Len(sanIn) |->
                     IF sanIn[i] \in {"/", " "} THEN "_" ELSE sanIn[i]]

\* C6 amended: every "/" becomes two underscores, every space one, every
\* other character is kept, in the order of the input.
C6_Sanitized ==
    sanOut # Null =>
        sanOut = Flatten([i \in 1..Len(sanIn) |->
                             IF sanIn[i] = "/" THEN <<"_", "_">>
                             ELSE IF sanIn[i] = " " THEN <<"_">>
                             ELSE <<sanIn[i]>>])

C6_Witness ==
    /\ sanOut # Null
    /\ \E i, j \in 1..Len(sanIn) : sanIn[i] = "/" /\ sanIn[j] = " "

\* ---------------------------------------------------------------------- C7
\* C7: a blank repo_id or filename fails with the argument error whatever
\* the other options are, and nothing has happened: no directory, no file,
\* no download.
C7_BlankRejected ==
    (Called /\ (Blank(last.repo_id) \/ Blank(last.filename))) =>
        /\ InvalidArgumentError
        /\ last.downloads = 0
        /\ dirs = last.pre_dirs
        /\ files = last.pre_files
        /\ last.written = {}

C7_Witness ==
    /\ Called /\ Blank(last.filename) /\ ~Blank(last.repo_id)
    /\ last.force /\ ExpectedGiven /\ last.save_as # Null
    /\ DOMAIN files # {}

\* ---------------------------------------------------------------------- C8
\* C8 as stated: one call creates or overwrites at most one file, the
\* target, and deletes none.
C8_OneFile ==
    Called =>
        /\ Cardinality(ChangedFiles) <= 1
        /\ ChangedFiles \subseteq (IF Admitted THEN {TargetLoc} ELSE {})
        /\ NoFileDeleted

\* the path the downloader writes, <target_dir>/<filename>
DownloadPath == PurePathStr(last.target_dir, PathOf(Strip(last.filename)))
DownloadLoc == Resolve(DownloadPath, dirs).loc

\* the file a copy to the target path writes: the target path, or, when it
\* is a directory, the name of the downloaded file inside it
CopyLoc ==
    IF isdir(last.target_path, dirs)
    THEN Resolve(PathJoin(last.target_path, <<basename(DownloadPath)>>), dirs).loc
    ELSE TargetLoc

\* C8 amended: one call creates or overwrites at most the file the
\* downloader writes, <target_dir>/<filename>, and the file the copy to the
\* target path writes; they are one file when the final name is the
\* filename; a call without a download writes no file; no file is deleted.
C8_DownloadAndCopy ==
    Called =>
        /\ ChangedFiles \subseteq
              (IF Admitted THEN {DownloadLoc, CopyLoc} ELSE {})
        /\ (Admitted /\ final_name(last.save_as, last.filename) = Strip(last.filename))
              => Cardinality(ChangedFiles) <= 1
        /\ last.downloads = 0 => ChangedFiles = {}
        /\ NoFileDeleted

C8_Witness ==
    /\ Succeeded /\ Cardinality(last.written) = 2
    /\ DownloadLoc # TargetLoc
    /\ DOMAIN last.pre_files # {}

\* ---------------------------------------------------------------------- C9
\* C9: content that failed the check after a download is never accepted as
\* a cache hit: no later call with force_download False returns with zero
\* downloads while that content is at the target path.
C9_RejectedNeverAccepted ==
    ~ /\ Succeeded /\ ~last.force /\ last.downloads = 0
      /\ \E rj \in rejected :
            /\ rj.target = last.target_path
            /\ TargetLoc \in DOMAIN files
            /\ files[TargetLoc] = rj.content

\* --------------------------------------------------------------------- C10
IsPrefix(a, b) == Len(a) <= Len(b) /\ SubSeq(b, 1, Len(a)) = a

RepoSlug == _sanitize_repo_id(Strip(last.repo_id))

\* cache_root/hf_lora_loader/<sanitized repo_id>, as a location
RepoDirLoc == NonEmptyComps(CacheRoot) \o <<HF_SUBDIR, RepoSlug>>

\* C10: the sanitized name has no separator and no space and is one segment
\* directly beneath cache_root/hf_lora_loader, and the target and every
\* file written lie inside that directory.
C10_Confined ==
    Admitted =>
        /\ \A i \in 1..Len(RepoSlug) : RepoSlug[i] \notin {"/", " "}
        /\ Resolve(last.target_dir, dirs).loc = RepoDirLoc
        /\ IsPrefix(RepoDirLoc, TargetLoc)
        /\ \A l \in last.written : IsPrefix(RepoDirLoc, l)

====
